---- MODULE Spec2Model ----
(***************************************************************************)
(* State-machine model of the voice-controlled runner: GameScene (run      *)
(* state, tick, collision, end of run, restart), Player (kinematics),      *)
(* TerrainGenerator (pillars from a stage configuration) and the           *)
(* VoiceController acquisition life cycle.                                 *)
(*                                                                         *)
(* Units: lengths in pixels, time in milliseconds, speeds in pixels per    *)
(* second.  The frame deltas are multiples of 500 ms and speeds multiples  *)
(* of 4, so that speed * delta / 1000 is an exact integer.                 *)
(***************************************************************************)
EXTENDS Integers, Sequences, FiniteSets, TLC

(***************************************************************************)
(* Bounds of the model.                                                    *)
(***************************************************************************)
\* number of create() calls (one VoiceController is constructed per create)
MaxRuns == 2

\* number of detection callbacks followed per controller
MaxCallbacks == 4

(***************************************************************************)
(* JavaScript numbers that reach the guards: finite integers, NaN and the  *)
(* two infinities.                                                         *)
(***************************************************************************)
Num(n) == [k |-> "num", v |-> n]

NaN == [k |-> "NaN", v |-> 0]

PosInf == [k |-> "Inf", v |-> 1]

NegInf == [k |-> "Inf", v |-> -1]

\* the value of a property that an object does not have
Undefined == [k |-> "undefined", v |-> 0]

\* !d
Falsy(d) == d.k = "NaN" \/ (d.k = "num" /\ d.v = 0)

\* d <= 0
LeqZero(d) == (d.k = "num" /\ d.v <= 0) \/ (d.k = "Inf" /\ d.v < 0)

\* isFinite(d)
IsFinite(d) == d.k = "num"

\* d > n
GreaterThan(d, n) == (d.k = "num" /\ d.v > n) \/ (d.k = "Inf" /\ d.v > 0)

\* d < n
LessThan(d, n) == (d.k = "num" /\ d.v < n) \/ (d.k = "Inf" /\ d.v < 0)

\* n >= d, false when d is undefined (NaN after conversion)
ReachedBy(d, n) == (d.k = "num" /\ n >= d.v) \/ (d.k = "Inf" /\ d.v < 0)

\* a + b * n for a finite a, n and a JavaScript number b
Affine(a, b, n) ==
  IF b.k = "num" THEN Num(a + b.v * n)
  ELSE IF b.k = "Inf" THEN (IF n = 0 THEN NaN ELSE IF (b.v > 0) = (n > 0) THEN PosInf ELSE NegInf)
  ELSE NaN

Min(a, b) == IF a <= b THEN a ELSE b

Max(a, b) == IF a >= b THEN a ELSE b

\* Phaser.Math.Clamp
Clamp(v, lo, hi) == Max(lo, Min(hi, v))

SetMin(S) == CHOOSE m \in S : \A e \in S : m <= e

SetMax(S) == CHOOSE m \in S : \A e \in S : m >= e

(***************************************************************************)
(* Program constants.                                                      *)
(***************************************************************************)
gameHeight == 600

baseScrollSpeed == 80

checkRange == 100

laneHeight == 70

topMargin == 50

spriteSize == 40

gravity == 500

maxUpwardVelocity == 600

maxDownwardVelocity == 600

minFrequency == 100

maxFrequency == 600

maxVolumeBoost == 500

playerStartX == 100

numLanes == 7

\* smoothingFactor 0.7, in percent
smoothingFactor == 70

validPitchMin == 130

validPitchMax == 520

\* minDynamicRange 0.005, in thousandths
minDynamicRange == 5

(***************************************************************************)
(* Inputs of the model.                                                    *)
(***************************************************************************)
\* frame deltas accepted by update()
ValidDeltas == {Num(500), Num(1000)}

\* frame deltas rejected by update()
InvalidDeltas == {Num(0), Num(-500), Num(1500), NaN, PosInf}

Deltas == ValidDeltas \cup InvalidDeltas

\* values of the scene clock (this.time.now) when the start button is pressed
ClockValues == {16, 5000}

\* a pillar of a stage configuration, in the lane format
LanePillar(x, lanes, w) ==
  [x |-> x, hasLanes |-> TRUE, blockedLanes |-> lanes, minY |-> Undefined,
   maxY |-> Undefined, width |-> w]

\* a pillar of a stage configuration, in the minY/maxY format
RangePillar(x, lo, hi, w) ==
  [x |-> x, hasLanes |-> FALSE, blockedLanes |-> {}, minY |-> Num(lo), maxY |-> Num(hi),
   width |-> w]

\* stage configurations (same shape as the generated stage files, shortened)
\* a stage configuration; hasPillars is false when it has no pillars property
Stage(length, hasPillars, pillars) ==
  [length |-> length, hasPillars |-> hasPillars, pillars |-> pillars]

\* stage configurations (same shape as the generated stage files, shortened),
\* two that lack a property the generated files always have, and one with a
\* pillar as wide as the player
StageConfigs ==
  [ floorStage   |-> Stage(Num(340), TRUE, << LanePillar(260, {0, 1}, 50) >>),
    ceilingStage |-> Stage(Num(340), TRUE, << LanePillar(260, {5, 6}, 50) >>),
    finishStage  |-> Stage(Num(340), TRUE, << LanePillar(330, {0, 1}, 50) >>),
    rangeStage   |-> Stage(Num(340), TRUE, << RangePillar(260, 0, 530, 50) >>),
    noLengthStage  |-> Stage(Undefined, TRUE, << LanePillar(260, {0, 1}, 50) >>),
    noPillarsStage |-> Stage(Num(340), FALSE, << >>),
    narrowStage    |-> Stage(Num(340), TRUE, << LanePillar(260, {0, 1}, 40) >>) ]

\* the stages the stage-select screen offers
StageNames == {"floorStage", "ceilingStage", "finishStage", "rangeStage"}

\* stages without a track length or without pillars
IncompleteStageNames == {"noLengthStage", "noPillarsStage"}

\* stages with a pillar narrower than the generated ones
NarrowStageNames == {"narrowStage"}

(***************************************************************************)
(* TerrainGenerator (stage-configuration variant).                         *)
(***************************************************************************)
\* variant: a floor pillar that reaches up to its lowest blocked lane only
\* Math.min(...blockedLanes): Infinity for an empty list
MinLane(blockedLanes) ==
  IF blockedLanes = {} THEN PosInf ELSE Num(SetMin(blockedLanes))

\* Math.max(...blockedLanes): -Infinity for an empty list
MaxLane(blockedLanes) ==
  IF blockedLanes = {} THEN NegInf ELSE Num(SetMax(blockedLanes))

\* variant: a floor pillar that reaches up to its lowest blocked lane only
ConvertLanesToYRangeLowest(blockedLanes) ==
  LET minLane == MinLane(blockedLanes)
      isBottomPillar == 0 \in blockedLanes
  IN  IF isBottomPillar
      THEN [minY |-> Affine(topMargin + 6 * laneHeight, minLane, -laneHeight),
            maxY |-> Num(gameHeight)]
      ELSE [minY |-> Num(0),
            maxY |-> Affine(topMargin + 7 * laneHeight, minLane, -laneHeight)]

\* topMargin + (6 - lane) * laneHeight is written topMargin + 6 * laneHeight
\* - lane * laneHeight
ConvertLanesToYRange(blockedLanes) ==
  LET minLane == MinLane(blockedLanes)
      maxLane == MaxLane(blockedLanes)
      isBottomPillar == 0 \in blockedLanes
  IN  IF isBottomPillar
      THEN [minY |-> Affine(topMargin + 6 * laneHeight, maxLane, -laneHeight),
            maxY |-> Num(gameHeight)]
      ELSE [minY |-> Num(0),
            maxY |-> Affine(topMargin + 7 * laneHeight, minLane, -laneHeight)]

CreatePillar(x, minY, maxY, width) ==
  [x |-> x, width |-> width, minY |-> minY, maxY |-> maxY, isPillar |-> TRUE]

GeneratePillars(stageConfig) ==
  [i \in 1..Len(stageConfig.pillars) |->
     LET pillarConfig == stageConfig.pillars[i]
     IN  IF pillarConfig.hasLanes
         THEN LET r == ConvertLanesToYRange(pillarConfig.blockedLanes)
              IN  CreatePillar(pillarConfig.x, r.minY, r.maxY, pillarConfig.width)
         ELSE CreatePillar(pillarConfig.x, pillarConfig.minY, pillarConfig.maxY,
                           pillarConfig.width)]

\* indices of the obstacles whose anchor x lies in [startX, endX]
GetObstaclesInRange(obstacles, startX, endX) ==
  {i \in 1..Len(obstacles) : obstacles[i].x >= startX /\ obstacles[i].x <= endX}

\* the length property of the stage: a number, or undefined
GetTotalWidth(stageName) == StageConfigs[stageName].length

(***************************************************************************)
(* Player (continuous-flight variant).                                     *)
(***************************************************************************)
NoPlayer ==
  [exists |-> FALSE, x |-> 0, y |-> 0, velocityY |-> 0,
   smoothedFrequency |-> 0, volumeBoost |-> 0]

NewPlayer(x, y) ==
  [exists |-> TRUE, x |-> x, y |-> y, velocityY |-> 0,
   smoothedFrequency |-> 0, volumeBoost |-> 0]

\* sprite.getBounds() of the 40x40 sprite with its origin at the centre
GetBounds(p) ==
  [x |-> p.x - spriteSize \div 2, right |-> p.x + spriteSize \div 2,
   y |-> p.y - spriteSize \div 2, bottom |-> p.y + spriteSize \div 2]

\* integer square root
ISqrt(n) == CHOOSE r \in 0..n : r * r <= n /\ (r + 1) * (r + 1) > n

\* Math.pow(a, 1.5) for a in hundredths, result in thousandths; exact when a
\* is a perfect square
Pow15(a) == ISqrt(a) * ISqrt(a) * ISqrt(a)

\* volume in units of 1/300, so that volume * 3 is in hundredths
ApplyVolumeBoost(p, volume) ==
  LET v0 == IF ~IsFinite(volume) \/ volume.k = "NaN" THEN 0 ELSE volume.v
      v1 == Clamp(v0, 0, 300)
      amplifiedVolume == Min(v1, 100)
      exponentialFactor == Pow15(amplifiedVolume)
  IN  [p EXCEPT !.volumeBoost = (exponentialFactor * maxVolumeBoost) \div 1000]

\* frequency in Hz; smoothedFrequency kept in hundredths of a Hz
ApplyFrequencyForce(p, frequency) ==
  LET f == IF ~IsFinite(frequency) \/ frequency.k = "NaN" THEN 0 ELSE frequency.v
      blended == (p.smoothedFrequency * 95 + f * 100 * 5) \div 100
      decayed == (p.smoothedFrequency * 95) \div 100
      s == IF f > 0 THEN blended
           ELSE IF decayed < 100 THEN 0 ELSE decayed
      normalized1000 ==
        Clamp(((s - minFrequency * 100) * 1000) \div ((maxFrequency - minFrequency) * 100),
              0, 1000)
      upwardVelocity == (normalized1000 * maxUpwardVelocity) \div 1000
  IN  IF s >= minFrequency * 100
      THEN [p EXCEPT !.smoothedFrequency = s, !.velocityY = -upwardVelocity]
      ELSE [p EXCEPT !.smoothedFrequency = s]

\* Player.update(delta): clamp of the vertical velocity
PlayerUpdate(p, delta) ==
  [p EXCEPT !.velocityY = Clamp(p.velocityY, -maxUpwardVelocity, maxDownwardVelocity)]

GetVolumeBoost(p) == p.volumeBoost

(***************************************************************************)
(* VoiceController: the acquisition life cycle.  contextState and tracks   *)
(* are the states of the AudioContext and of the MediaStream tracks this   *)
(* controller obtained; they outlive the fields that refer to them.        *)
(***************************************************************************)
\* pitches are kept in hundredths of a Hz, samples and the force in
\* thousandths; sampleRate is audioContext.sampleRate (0 without a context
\* whose detection loop is followed); callbacks counts the detection
\* callbacks that have run
NewVoiceController ==
  [audioContext |-> FALSE, analyser |-> FALSE, microphone |-> FALSE,
   stream |-> FALSE, isActive |-> FALSE,
   currentPitch |-> 0, rawPitch |-> 0, smoothedRawPitch |-> 0,
   currentNote |-> "do", currentForce |-> Num(0),
   sampleRate |-> 0, callbacks |-> 0,
   initPc |-> "new", initResult |-> "pending", destroyPc |-> "none",
   tracks |-> "none", contextState |-> "none"]

\* musicalNotes, in the order of Object.entries; freq in hundredths of a Hz
MusicalNotes ==
  << [note |-> "do3",  min |-> 130, max |-> 145, freq |-> 13081],
     [note |-> "re3",  min |-> 145, max |-> 163, freq |-> 14683],
     [note |-> "mi3",  min |-> 163, max |-> 182, freq |-> 16481],
     [note |-> "fa3",  min |-> 182, max |-> 195, freq |-> 17461],
     [note |-> "sol3", min |-> 195, max |-> 218, freq |-> 19600],
     [note |-> "la3",  min |-> 218, max |-> 245, freq |-> 22000],
     [note |-> "si3",  min |-> 245, max |-> 270, freq |-> 24694],
     [note |-> "do",   min |-> 270, max |-> 287, freq |-> 26163],
     [note |-> "re",   min |-> 287, max |-> 310, freq |-> 29366],
     [note |-> "mi",   min |-> 310, max |-> 337, freq |-> 32963],
     [note |-> "fa",   min |-> 337, max |-> 360, freq |-> 34923],
     [note |-> "sol",  min |-> 360, max |-> 407, freq |-> 39200],
     [note |-> "la",   min |-> 407, max |-> 457, freq |-> 44000],
     [note |-> "si",   min |-> 457, max |-> 520, freq |-> 49388] >>

\* variant: the nearest canonical frequency is tried before the bands
DetectNoteFromPitchNearFirst(pitch) ==
  IF pitch <= 0 \/ pitch < 130 * 100 \/ pitch > 520 * 100
  THEN "null"
  ELSE LET inBand == {i \in DOMAIN MusicalNotes :
                        /\ pitch >= MusicalNotes[i].min * 100
                        /\ pitch <= MusicalNotes[i].max * 100}
           near == {i \in DOMAIN MusicalNotes :
                      LET distance == IF pitch >= MusicalNotes[i].freq
                                      THEN pitch - MusicalNotes[i].freq
                                      ELSE MusicalNotes[i].freq - pitch
                      IN  distance < 25 * 100}
       IN  IF near # {} THEN MusicalNotes[SetMin(near)].note
           ELSE IF inBand # {} THEN MusicalNotes[SetMin(inBand)].note
           ELSE "null"

\* detectNoteFromPitch(pitch), pitch in hundredths of a Hz; "null" for null
DetectNoteFromPitch(pitch) ==
  IF pitch <= 0 \/ pitch < 130 * 100 \/ pitch > 520 * 100
  THEN "null"
  ELSE LET inBand == {i \in DOMAIN MusicalNotes :
                        /\ pitch >= MusicalNotes[i].min * 100
                        /\ pitch <= MusicalNotes[i].max * 100}
           near == {i \in DOMAIN MusicalNotes :
                      LET distance == IF pitch >= MusicalNotes[i].freq
                                      THEN pitch - MusicalNotes[i].freq
                                      ELSE MusicalNotes[i].freq - pitch
                      IN  distance < 25 * 100}
       IN  IF inBand # {} THEN MusicalNotes[SetMin(inBand)].note
           ELSE IF near # {} THEN MusicalNotes[SetMin(near)].note
           ELSE "null"

UpdateCurrentNote(c) ==
  LET detectedNote == DetectNoteFromPitch(c.currentPitch)
  IN  IF detectedNote # "null" /\ c.currentPitch > 0
      THEN [c EXCEPT !.currentNote = detectedNote]
      ELSE c

\* currentNote.replace(/[0-9]/g, '') on the names of musicalNotes
BaseNote(note) ==
  CASE note = "do3" -> "do"
    [] note = "re3" -> "re"
    [] note = "mi3" -> "mi"
    [] note = "fa3" -> "fa"
    [] note = "sol3" -> "sol"
    [] note = "la3" -> "la"
    [] note = "si3" -> "si"
    [] OTHER -> note

\* the array notes of getNoteIndex()
NoteNames == << "do", "re", "mi", "fa", "sol", "la", "si" >>

\* variant: the octave number is kept, so an octave-3 name is not found
GetNoteIndexKeepOctave(c) ==
  LET found == {i \in DOMAIN NoteNames : NoteNames[i] = c.currentNote}
      index == IF found = {} THEN -1 ELSE SetMin(found) - 1
  IN  IF index >= 0 THEN index ELSE 3

\* getNoteIndex(): indexOf is 0-based, 3 (FA) when the name is not found
GetNoteIndex(c) ==
  LET baseNote == BaseNote(c.currentNote)
      found == {i \in DOMAIN NoteNames : NoteNames[i] = baseNote}
      index == IF found = {} THEN -1 ELSE SetMin(found) - 1
  IN  IF index >= 0 THEN index ELSE 3

\* floor of the square root of n, by bisection of lo..hi
RECURSIVE SqrtIn(_, _, _)
SqrtIn(n, lo, hi) ==
  IF lo >= hi THEN lo
  ELSE LET mid == (lo + hi + 1) \div 2
       IN  IF mid * mid <= n THEN SqrtIn(n, mid, hi) ELSE SqrtIn(n, lo, mid - 1)

RECURSIVE SumTo(_, _)
SumTo(f, n) == IF n = 0 THEN 0 ELSE f[n] + SumTo(f, n - 1)

\* the sum of non-negative JavaScript numbers
JsSum(terms) ==
  IF \E i \in DOMAIN terms : terms[i].k = "NaN" THEN NaN
  ELSE IF \E i \in DOMAIN terms : terms[i].k = "Inf" THEN PosInf
  ELSE Num(SumTo([i \in DOMAIN terms |-> terms[i].v], Len(terms)))

\* Math.abs(a - b)
AbsDiff(a, b) ==
  IF a.k = "NaN" \/ b.k = "NaN" THEN NaN
  ELSE IF a.k = "Inf" /\ b.k = "Inf" THEN (IF a.v = b.v THEN NaN ELSE PosInf)
  ELSE IF a.k = "Inf" \/ b.k = "Inf" THEN PosInf
  ELSE Num(IF a.v >= b.v THEN a.v - b.v ELSE b.v - a.v)

\* calculateForce(rms, maxAmplitude): rms * 0.9 + maxAmplitude * 0.1
CalculateForce(rms, maxAmplitude) ==
  IF rms.k = "NaN" \/ maxAmplitude.k = "NaN" THEN NaN
  ELSE IF rms.k = "Inf" \/ maxAmplitude.k = "Inf" THEN PosInf
  ELSE Num((rms.v * 9 + maxAmplitude.v) \div 10)

\* 1 - correlation / maxSamples at one offset, times 1000 * maxSamples
Correlation(buffer, maxSamples, offset) ==
  LET sum == JsSum([i \in 1..maxSamples |-> AbsDiff(buffer[i], buffer[i + offset])])
  IN  IF sum.k = "NaN" THEN NaN
      ELSE IF sum.k = "Inf" THEN NegInf
      ELSE Num(1000 * maxSamples - sum.v)

\* the loop of autoCorrelate() over the offsets from offset on; acc holds
\* lastCorrelation, bestCorrelation (scaled as Correlation) and bestOffset
RECURSIVE ScanOffsets(_, _, _, _)
ScanOffsets(buffer, maxSamples, offset, acc) ==
  IF offset >= maxSamples THEN acc
  ELSE LET correlation == Correlation(buffer, maxSamples, offset)
           rising == /\ correlation.k = "num"
                     /\ correlation.v * 10 > 9 * 1000 * maxSamples
                     /\ \/ acc.lastCorrelation.k = "num"
                             /\ correlation.v > acc.lastCorrelation.v
                        \/ acc.lastCorrelation.k = "Inf"
           better == rising /\ correlation.v > acc.bestCorrelation
       IN  ScanOffsets(buffer, maxSamples, offset + 1,
                       [lastCorrelation |-> correlation,
                        bestCorrelation |-> IF better THEN correlation.v
                                            ELSE acc.bestCorrelation,
                        bestOffset |-> IF better THEN offset ELSE acc.bestOffset])

\* variant: lastCorrelation starts at 0
InitialScanZero(maxSamples) ==
  [lastCorrelation |-> Num(0), bestCorrelation |-> 0, bestOffset |-> -1]

\* autoCorrelate(): bestOffset = -1, bestCorrelation = 0, lastCorrelation = 1
InitialScan(maxSamples) ==
  [lastCorrelation |-> Num(1000 * maxSamples), bestCorrelation |-> 0, bestOffset |-> -1]

\* autoCorrelate(buffer, sampleRate): the pitch returned (hundredths of a Hz,
\* -1 for none), the force stored in currentForce, and the values of
\* bestOffset and bestCorrelation (scaled as Correlation) at the return
AutoCorrelate(buffer, sampleRate) ==
  LET size == Len(buffer)
      maxSamples == size \div 2
      sumSquares == JsSum([i \in 1..size |->
                            IF buffer[i].k = "num" THEN Num(buffer[i].v * buffer[i].v)
                            ELSE IF buffer[i].k = "Inf" THEN PosInf ELSE NaN])
      finite == {IF buffer[i].v >= 0 THEN buffer[i].v ELSE -buffer[i].v :
                   i \in {j \in 1..size : buffer[j].k = "num"}}
      infinite == \E i \in 1..size : buffer[i].k = "Inf"
      maxAmplitude == IF infinite THEN PosInf
                      ELSE IF finite = {} THEN Num(0) ELSE Num(SetMax(finite))
      minAmplitude == IF finite = {} THEN PosInf ELSE Num(SetMin(finite))
      rms == IF size = 0 THEN NaN
             ELSE IF sumSquares.k # "num" THEN sumSquares
             ELSE Num(SqrtIn(sumSquares.v \div size, 0, 1000))
      force == CalculateForce(rms, maxAmplitude)
      silent == /\ size > 0 /\ sumSquares.k = "num" /\ sumSquares.v < 25 * size
                /\ maxAmplitude.k = "num" /\ maxAmplitude.v < 5
      flat == /\ maxAmplitude.k = "num"
              /\ \/ minAmplitude.k = "Inf"
                 \/ maxAmplitude.v - minAmplitude.v < minDynamicRange
      scan == ScanOffsets(buffer, maxSamples, 1, InitialScan(maxSamples))
  IN  IF silent \/ flat
      THEN [pitch |-> -1, force |-> force, bestOffset |-> -1, bestCorrelation |-> 0]
      ELSE IF scan.bestCorrelation * 100 > 8 * 1000 * maxSamples /\ scan.bestOffset # -1
      THEN [pitch |-> (sampleRate * 100) \div scan.bestOffset, force |-> force,
            bestOffset |-> scan.bestOffset, bestCorrelation |-> scan.bestCorrelation]
      ELSE [pitch |-> -1, force |-> force, bestOffset |-> scan.bestOffset,
            bestCorrelation |-> scan.bestCorrelation]

\* variant: the first candidate is blended with the initial 0
SmoothRawPitchNoSeed(smoothedRawPitch, pitch) ==
  IF pitch > 0
  THEN (smoothedRawPitch * smoothingFactor + pitch * (100 - smoothingFactor)) \div 100
  ELSE IF smoothedRawPitch > 0
       THEN LET decayed == (smoothedRawPitch * 95) \div 100
            IN  IF decayed < 100 THEN 0 ELSE decayed
       ELSE smoothedRawPitch

\* variant: the candidate is added with its full weight
SmoothRawPitchUnweighted(smoothedRawPitch, pitch) ==
  IF pitch > 0
  THEN IF smoothedRawPitch = 0
       THEN pitch
       ELSE (smoothedRawPitch * smoothingFactor) \div 100 + pitch
  ELSE IF smoothedRawPitch > 0
       THEN LET decayed == (smoothedRawPitch * 95) \div 100
            IN  IF decayed < 100 THEN 0 ELSE decayed
       ELSE smoothedRawPitch

\* detectLoop: the smoothing of the raw pitch
SmoothRawPitch(smoothedRawPitch, pitch) ==
  IF pitch > 0
  THEN IF smoothedRawPitch = 0
       THEN pitch
       ELSE (smoothedRawPitch * smoothingFactor + pitch * (100 - smoothingFactor)) \div 100
  ELSE IF smoothedRawPitch > 0
       THEN LET decayed == (smoothedRawPitch * 95) \div 100
            IN  IF decayed < 100 THEN 0 ELSE decayed
       ELSE smoothedRawPitch

\* variant: the gate without the upper end of validPitchRange
GatePitchNoMax(c) ==
  IF c.rawPitch > 0 /\ c.rawPitch >= validPitchMin * 100
  THEN UpdateCurrentNote([c EXCEPT !.currentPitch = c.rawPitch])
  ELSE [c EXCEPT !.currentPitch = 0]

\* detectLoop: the pitch used for the game is the raw pitch inside
\* validPitchRange, else 0
GatePitch(c) ==
  IF c.rawPitch > 0 /\ c.rawPitch >= validPitchMin * 100 /\ c.rawPitch <= validPitchMax * 100
  THEN UpdateCurrentNote([c EXCEPT !.currentPitch = c.rawPitch])
  ELSE [c EXCEPT !.currentPitch = 0]

\* variant: the force is stored only for a frame that passes the noise gate
DetectLoopBodyForceGated(c, buffer) ==
  LET r == AutoCorrelate(buffer, c.sampleRate)
      smoothed == SmoothRawPitch(c.smoothedRawPitch, r.pitch)
  IN  GatePitch([c EXCEPT !.currentForce = IF r.pitch > 0 THEN r.force ELSE c.currentForce,
                          !.smoothedRawPitch = smoothed,
                          !.rawPitch = smoothed,
                          !.callbacks = c.callbacks + 1])

\* one run of detectLoop on the frame the analyser delivers
DetectLoopBody(c, buffer) ==
  LET r == AutoCorrelate(buffer, c.sampleRate)
      smoothed == SmoothRawPitch(c.smoothedRawPitch, r.pitch)
  IN  GatePitch([c EXCEPT !.currentForce = r.force,
                          !.smoothedRawPitch = smoothed,
                          !.rawPitch = smoothed,
                          !.callbacks = c.callbacks + 1])

\* initialize() up to the await of getUserMedia
InitializeBegin(c) == [c EXCEPT !.initPc = "awaitMic"]

\* initialize() after getUserMedia resolved with a stream
InitializeGranted(c) ==
  [c EXCEPT !.audioContext = TRUE, !.contextState = "running",
            !.analyser = TRUE, !.microphone = TRUE,
            !.stream = TRUE, !.tracks = "live",
            !.isActive = TRUE,
            !.initPc = "done", !.initResult = "true"]

\* initialize() after getUserMedia resolved with a stream, when a later step
\* throws: new AudioContext() ("context"), createAnalyser() ("analyser") or
\* createMediaStreamSource() ("source"); the stream is in a local variable
\* only, and the catch block returns false
InitializeThrown(c, step) ==
  [c EXCEPT !.tracks = "live",
            !.audioContext = (step # "context"),
            !.contextState = IF step # "context" THEN "running" ELSE c.contextState,
            !.analyser = (step = "source"),
            !.initPc = "done", !.initResult = "false"]

\* variant: isActive is set before the microphone is awaited
InitializeRefusedActive(c) ==
  [c EXCEPT !.isActive = TRUE, !.initPc = "done", !.initResult = "false"]

\* initialize() after getUserMedia rejected: the catch block returns false
InitializeRefused(c) ==
  [c EXCEPT !.initPc = "done", !.initResult = "false"]

\* destroyAsync() up to the await of audioContext.close(), or to its end
\* when there is no open context
DestroyAsyncBegin(c) ==
  LET c1 == [c EXCEPT !.isActive = FALSE, !.microphone = FALSE]
      c2 == IF c1.stream
            THEN [c1 EXCEPT !.tracks = "stopped", !.stream = FALSE]
            ELSE c1
  IN  IF c2.audioContext /\ c2.contextState # "closed"
      THEN [c2 EXCEPT !.destroyPc = "awaitClose"]
      ELSE [c2 EXCEPT !.analyser = FALSE, !.destroyPc = "done"]

\* variant: a rejected close() is not caught and ends destroyAsync()
DestroyAsyncFinishUncaught(c, ok) ==
  IF ok
  THEN [c EXCEPT !.contextState = "closed", !.audioContext = FALSE, !.analyser = FALSE,
                 !.destroyPc = "done"]
  ELSE [c EXCEPT !.destroyPc = "failed"]

\* destroyAsync() after audioContext.close() resolved (ok) or rejected
DestroyAsyncFinish(c, ok) ==
  [c EXCEPT !.contextState = IF ok THEN "closed" ELSE c.contextState,
            !.audioContext = FALSE, !.analyser = FALSE,
            !.destroyPc = "done"]

(***************************************************************************)
(* GameScene.                                                              *)
(***************************************************************************)
VARIABLES
  activeScene,   \* the Phaser scene that is running
  scene,         \* the fields of the GameScene instance
  vcs,           \* the VoiceController instances constructed so far
  task,          \* the pending restartGame()/backToMenu() call
  initTask,      \* the part of initVoiceControl() that waits for a previous controller
  last           \* what the last update() call did

vars == <<activeScene, scene, vcs, task, initTask, last>>

NoTerrain == [exists |-> FALSE, obstacles |-> <<>>]

\* the constructor of GameScene
NewScene ==
  [isGameStarted |-> FALSE, isGameOver |-> FALSE, startTime |-> 0,
   currentStage |-> "none", playerHit |-> FALSE,
   voiceController |-> 0,
   terrain |-> NoTerrain, player |-> NoPlayer,
   ui |-> FALSE,             \* statusText, stageNameText, frequencyVolumeText, distanceText
   distanceText |-> Num(0),  \* the percentage shown, in tenths
   startButton |-> FALSE,    \* the start modal
   endModal |-> FALSE,       \* the end modal with restartText and menuButton
   endText |-> "none",       \* the message of the end modal
   created |-> 0,            \* history: number of create() calls
   outcomes |-> {},          \* history: the end messages shown in this run
   collisionsFired |-> 0,    \* history: endGame(false) calls of this run
   endModalsShown |-> 0]     \* history: showEndModal() calls of this run

NoTask == [kind |-> "none", pc |-> "idle"]

NoUpdate ==
  [op |-> "other", delta |-> Num(0), branch |-> "none", error |-> "none",
   evaluated |-> FALSE]

UpdateRecord(delta, branch, error, evaluated) ==
  [op |-> "update", delta |-> delta, branch |-> branch, error |-> error,
   evaluated |-> evaluated]

\* update(): the UI, player or terrain is gone
SceneMissing(s) == ~s.ui \/ ~s.player.exists \/ ~s.terrain.exists

\* variant: the delta guard without the sign test
DeltaInvalidNoSign(delta) ==
  Falsy(delta) \/ ~IsFinite(delta) \/ GreaterThan(delta, 1000)

\* update(): the delta guard
DeltaInvalid(delta) ==
  Falsy(delta) \/ LeqZero(delta) \/ ~IsFinite(delta) \/ GreaterThan(delta, 1000)

\* variant: the tick guard without the game-over test
GameLogicIdleNoOverCheck(s) == ~s.isGameStarted

\* variant: the tick guard without the started test
GameLogicIdleNoStartCheck(s) == s.isGameOver

\* update(): game logic does not run before the start or after the end
GameLogicIdle(s) == ~s.isGameStarted \/ s.isGameOver

\* this.voiceController && this.voiceController.isActive
ControllerActive(s, v) == s.voiceController # 0 /\ v[s.voiceController].isActive

ShowEndModal(s, message) ==
  [s EXCEPT !.endModal = TRUE, !.endText = message,
            !.outcomes = s.outcomes \cup {message},
            !.endModalsShown = s.endModalsShown + 1]

\* variant: endGame() that does not latch isGameOver
EndGameNoLatch(s, success) ==
  IF s.isGameOver
  THEN s
  ELSE ShowEndModal(s, IF success THEN "Level Complete!" ELSE "Game Over!")

EndGame(s, success) ==
  IF s.isGameOver
  THEN s
  ELSE ShowEndModal([s EXCEPT !.isGameOver = TRUE],
                    IF success THEN "Level Complete!" ELSE "Game Over!")

\* the bounding-box test of checkTerrainCollision() against one obstacle
Overlaps(playerBounds, obstacle) ==
  LET obstacleLeft == obstacle.x - obstacle.width \div 2
      obstacleRight == obstacle.x + obstacle.width \div 2
      overlapX == playerBounds.right > obstacleLeft /\ playerBounds.x < obstacleRight
      overlapY == /\ LessThan(obstacle.minY, playerBounds.bottom)
                  /\ GreaterThan(obstacle.maxY, playerBounds.y)
  IN  obstacle.isPillar /\ overlapX /\ overlapY

\* the loop of checkTerrainCollision() over the nearby obstacles
HitObstacle(s) ==
  LET playerBounds == GetBounds(s.player)
      nearbyObstacles == GetObstaclesInRange(s.terrain.obstacles,
                                             playerBounds.x - checkRange,
                                             playerBounds.x + checkRange)
  IN  \E i \in nearbyObstacles : Overlaps(playerBounds, s.terrain.obstacles[i])

CheckTerrainCollision(s) ==
  IF s.isGameOver
  THEN s
  ELSE IF HitObstacle(s) /\ ~s.playerHit
       THEN EndGame([s EXCEPT !.playerHit = TRUE,
                              !.collisionsFired = s.collisionsFired + 1], FALSE)
       ELSE s

\* Math.min(100, progress).toFixed(1), in tenths of a percent; NaN when the
\* stage has no length
Progress(x, totalWidth) ==
  IF totalWidth.k = "num"
  THEN Num(Min(1000, (x * 2000 + totalWidth.v) \div (2 * totalWidth.v)))
  ELSE NaN

\* update(): the distance display and the completion test
CheckCompletion(s) ==
  LET totalWidth == GetTotalWidth(s.currentStage)
      s1 == [s EXCEPT !.distanceText = Progress(s.player.x, totalWidth)]
  IN  IF ReachedBy(totalWidth, s.player.x) THEN EndGame(s1, TRUE) ELSE s1

\* variant: the completion test before the collision check
TickOutcomeCompletionFirst(s) == CheckTerrainCollision(CheckCompletion(s))

\* update(): collision check, then distance display and completion test
TickOutcome(s) == CheckCompletion(CheckTerrainCollision(s))

\* update(): player.update(delta) and the horizontal movement
AdvancePlayer(s, delta) ==
  LET p == PlayerUpdate(s.player, delta)
      currentSpeed == baseScrollSpeed + GetVolumeBoost(p)
      horizontalMovement == (currentSpeed * delta.v) \div 1000
  IN  [s EXCEPT !.player = [p EXCEPT !.x = p.x + horizontalMovement]]

\* update(): the inactive-controller branch applies the defaults
ApplyDefaults(s) ==
  [s EXCEPT !.player = ApplyVolumeBoost(ApplyFrequencyForce(s.player, Num(0)), Num(0))]

StartGame(s, now) ==
  [s EXCEPT !.isGameStarted = TRUE, !.isGameOver = FALSE, !.playerHit = FALSE,
            !.startTime = now]

\* variant: the start modal stays on the screen
HideStartModalKept(s) == s

HideStartModal(s) == [s EXCEPT !.startButton = FALSE]

HideEndModal(s) == [s EXCEPT !.endModal = FALSE, !.endText = "none"]

\* cleanupAsync() after the voice controller has been destroyed
CleanupRest(s) ==
  [HideEndModal(HideStartModal(s)) EXCEPT
     !.voiceController = 0, !.terrain = NoTerrain, !.player = NoPlayer, !.ui = FALSE]

\* the body of update(time, delta): the new scene and the record of the call
UpdateScene(s, v, delta) ==
  IF SceneMissing(s)
  THEN [scene |-> s, last |-> UpdateRecord(delta, "missing", "none", FALSE)]
  ELSE IF DeltaInvalid(delta)
  THEN [scene |-> s, last |-> UpdateRecord(delta, "invalidDelta", "none", FALSE)]
  ELSE IF GameLogicIdle(s)
  THEN \* the display branch calls voiceController.getVolume(), which
       \* VoiceController does not define: TypeError
       [scene |-> s,
        last |-> UpdateRecord(delta, "idle",
                              IF ControllerActive(s, v) /\ s.ui THEN "TypeError" ELSE "none",
                              FALSE)]
  ELSE IF ControllerActive(s, v)
  THEN \* getPitch() returns, getVolume() is not a function: TypeError before
       \* the player is touched
       [scene |-> s, last |-> UpdateRecord(delta, "running", "TypeError", FALSE)]
  ELSE \* defaults, then the advance, then the outcome of the tick; each
       \* intermediate scene is bound to its value once
       CHOOSE r \in
         { [scene |-> TickOutcome(s2),
            last |-> UpdateRecord(delta, "running", "none", ~s2.isGameOver)] :
           s2 \in { AdvancePlayer(s1, delta) : s1 \in {ApplyDefaults(s)} } } : TRUE

\* the vertical step of the arcade body between two frames: gravity set by
\* the Player constructor, world bounds set by create(), no bounce
ArcadeStep(p, delta) ==
  LET vy == p.velocityY + (gravity * delta.v) \div 1000
      y == p.y + (vy * delta.v) \div 1000
      half == spriteSize \div 2
  IN  IF y + half > gameHeight
      THEN [p EXCEPT !.y = gameHeight - half, !.velocityY = 0]
      ELSE IF y - half < 0
      THEN [p EXCEPT !.y = half, !.velocityY = 0]
      ELSE [p EXCEPT !.y = y, !.velocityY = vy]

\* create(data) up to terrain.generate(), which throws a TypeError when the
\* stage has no pillars: nothing after it runs
CreateSceneThrown(stageName) ==
  [scene EXCEPT
     !.isGameStarted = FALSE, !.isGameOver = FALSE, !.startTime = 0,
     !.currentStage = stageName,
     !.terrain = [exists |-> TRUE, obstacles |-> << >>],
     !.created = scene.created + 1,
     !.outcomes = {}, !.collisionsFired = 0, !.endModalsShown = 0]

\* create(data) without initVoiceControl(): the scene it leaves
CreatedScene(s, stageName) ==
  [s EXCEPT
     !.isGameStarted = FALSE, !.isGameOver = FALSE, !.startTime = 0,
     !.currentStage = stageName,
     !.terrain = [exists |-> TRUE,
                  obstacles |-> GeneratePillars(StageConfigs[stageName])],
     !.player = NewPlayer(playerStartX, gameHeight - 100),
     !.playerHit = FALSE,
     !.ui = TRUE, !.distanceText = Num(0),
     !.startButton = TRUE,
     !.created = s.created + 1,
     !.outcomes = {}, !.collisionsFired = 0, !.endModalsShown = 0]

\* create(data), with the part of initVoiceControl() that runs before its
\* first await
CreateScene(stageName) ==
  LET s1 == CreatedScene(scene, stageName)
      prev == scene.voiceController
  IN  IF ~StageConfigs[stageName].hasPillars
      THEN /\ scene' = CreateSceneThrown(stageName)
           /\ UNCHANGED <<vcs, initTask>>
      ELSE IF prev # 0
      THEN \* a previous controller is destroyed first
           LET d == DestroyAsyncBegin(vcs[prev])
           IN  /\ vcs' = [vcs EXCEPT ![prev] = d]
               /\ initTask' = IF d.destroyPc = "awaitClose" THEN "awaitDestroy" ELSE "delay"
               /\ scene' = IF d.destroyPc = "awaitClose"
                           THEN s1
                           ELSE [s1 EXCEPT !.voiceController = 0]
      ELSE /\ vcs' = Append(vcs, InitializeBegin(NewVoiceController))
           /\ scene' = [s1 EXCEPT !.voiceController = Len(vcs) + 1]
           /\ initTask' = initTask

Init ==
  /\ activeScene = "StageSelectScene"
  /\ scene = NewScene
  /\ vcs = <<>>
  /\ task = NoTask
  /\ initTask = "idle"
  /\ last = NoUpdate

\* StageSelectScene: a stage button starts GameScene
SelectStage(stageName) ==
  /\ activeScene = "StageSelectScene"
  /\ scene.created < MaxRuns
  /\ activeScene' = "GameScene"
  /\ CreateScene(stageName)
  /\ last' = NoUpdate
  /\ UNCHANGED task

\* the start button of the start modal
ClickStart(now) ==
  /\ activeScene = "GameScene"
  /\ scene.startButton
  /\ scene' = StartGame(HideStartModal(scene), now)
  /\ last' = NoUpdate
  /\ UNCHANGED <<activeScene, vcs, task, initTask>>

\* one call of update(time, delta)
Update(delta) ==
  /\ activeScene = "GameScene"
  /\ LET r == UpdateScene(scene, vcs, delta)
     IN  /\ scene' = r.scene
         /\ last' = r.last
  /\ UNCHANGED <<activeScene, vcs, task, initTask>>

\* one step of the physics world on the player's body
PhysicsStep(delta) ==
  /\ activeScene = "GameScene"
  /\ scene.player.exists
  /\ scene' = [scene EXCEPT !.player = ArcadeStep(scene.player, delta)]
  /\ last' = NoUpdate
  /\ UNCHANGED <<activeScene, vcs, task, initTask>>

\* restartGame()/backToMenu() up to the first await that leaves the
\* microtask queue: cleanupAsync() destroys the controller
BeginCleanup(kind) ==
  LET s0 == HideEndModal(scene)
      c == s0.voiceController
  IN  IF c # 0
      THEN LET d == DestroyAsyncBegin(vcs[c])
           IN  /\ vcs' = [vcs EXCEPT ![c] = d]
               /\ IF d.destroyPc = "awaitClose"
                  THEN /\ scene' = s0
                       /\ task' = [kind |-> kind, pc |-> "awaitDestroy"]
                  ELSE /\ scene' = CleanupRest(s0)
                       /\ task' = [kind |-> kind, pc |-> "delay"]
      ELSE /\ vcs' = vcs
           /\ scene' = CleanupRest(s0)
           /\ task' = [kind |-> kind, pc |-> "delay"]

\* the Restart button of the end modal
ClickRestart ==
  /\ activeScene = "GameScene"
  /\ scene.endModal
  /\ scene.created < MaxRuns
  /\ BeginCleanup("restart")
  /\ last' = NoUpdate
  /\ UNCHANGED <<activeScene, initTask>>

\* the Back to Menu button of the end modal
ClickMenu ==
  /\ activeScene = "GameScene"
  /\ scene.endModal
  /\ BeginCleanup("menu")
  /\ last' = NoUpdate
  /\ UNCHANGED <<activeScene, initTask>>

\* audioContext.close() of controller c resolves (ok) or rejects; the
\* awaiting destroyAsync() and its caller continue
ContextCloseSettles(c, ok) ==
  /\ vcs[c].destroyPc = "awaitClose"
  /\ vcs' = [vcs EXCEPT ![c] = DestroyAsyncFinish(vcs[c], ok)]
  /\ IF task.pc = "awaitDestroy" /\ scene.voiceController = c
     THEN /\ scene' = CleanupRest(scene)
          /\ task' = [task EXCEPT !.pc = "delay"]
          /\ initTask' = initTask
     ELSE IF initTask = "awaitDestroy" /\ scene.voiceController = c
     THEN /\ scene' = [scene EXCEPT !.voiceController = 0]
          /\ initTask' = "delay"
          /\ task' = task
     ELSE UNCHANGED <<scene, task, initTask>>
  /\ last' = NoUpdate
  /\ UNCHANGED activeScene

\* a setTimeout of restartGame(), backToMenu() or initVoiceControl() fires
DelayElapsed ==
  /\ task.pc = "delay" \/ initTask = "delay"
  /\ IF task.pc = "delay"
     THEN IF task.kind = "restart"
          THEN /\ CreateScene(scene.currentStage)
               /\ UNCHANGED activeScene
          ELSE /\ activeScene' = "StageSelectScene"
               /\ UNCHANGED <<scene, vcs, initTask>>
     ELSE /\ vcs' = Append(vcs, InitializeBegin(NewVoiceController))
          /\ scene' = [scene EXCEPT !.voiceController = Len(vcs) + 1]
          /\ initTask' = "idle"
          /\ UNCHANGED activeScene
  /\ task' = IF task.pc = "delay" THEN NoTask ELSE task
  /\ last' = NoUpdate

\* getUserMedia of controller c resolves with a stream
MicGranted(c) ==
  /\ vcs[c].initPc = "awaitMic"
  /\ vcs' = [vcs EXCEPT ![c] = InitializeGranted(vcs[c])]
  /\ last' = NoUpdate
  /\ UNCHANGED <<activeScene, scene, task, initTask>>

\* getUserMedia of controller c rejects
MicRefused(c) ==
  /\ vcs[c].initPc = "awaitMic"
  /\ vcs' = [vcs EXCEPT ![c] = InitializeRefused(vcs[c])]
  /\ last' = NoUpdate
  /\ UNCHANGED <<activeScene, scene, task, initTask>>

Next ==
  \/ \E stageName \in StageNames : SelectStage(stageName)
  \/ \E now \in ClockValues : ClickStart(now)
  \/ \E delta \in Deltas : Update(delta)
  \/ \E delta \in ValidDeltas : PhysicsStep(delta)
  \/ ClickRestart
  \/ ClickMenu
  \/ \E c \in DOMAIN vcs : \E ok \in BOOLEAN : ContextCloseSettles(c, ok)
  \/ DelayElapsed
  \/ \E c \in DOMAIN vcs : MicGranted(c)
  \/ \E c \in DOMAIN vcs : MicRefused(c)

Spec == Init /\ [][Next]_vars

\* update() keeps being called with an accepted delta while the scene runs
FairSpec == Spec /\ WF_vars(\E delta \in ValidDeltas : Update(delta))

(***************************************************************************)
(* The scene when a step of initialize() after the microphone grant can    *)
(* throw.                                                                  *)
(***************************************************************************)
InitializeSteps == {"context", "analyser", "source"}

\* getUserMedia of controller c resolves with a stream and a later step of
\* initialize() throws
MicGrantedThrown(c, step) ==
  /\ vcs[c].initPc = "awaitMic"
  /\ vcs' = [vcs EXCEPT ![c] = InitializeThrown(vcs[c], step)]
  /\ last' = NoUpdate
  /\ UNCHANGED <<activeScene, scene, task, initTask>>

InitFailNext ==
  \/ \E stageName \in StageNames : SelectStage(stageName)
  \/ \E now \in ClockValues : ClickStart(now)
  \/ \E delta \in Deltas : Update(delta)
  \/ \E delta \in ValidDeltas : PhysicsStep(delta)
  \/ ClickRestart
  \/ ClickMenu
  \/ \E c \in DOMAIN vcs : \E ok \in BOOLEAN : ContextCloseSettles(c, ok)
  \/ DelayElapsed
  \/ \E c \in DOMAIN vcs : MicGranted(c)
  \/ \E c \in DOMAIN vcs : MicRefused(c)
  \/ \E c \in DOMAIN vcs : \E step \in InitializeSteps : MicGrantedThrown(c, step)

InitFailSpec == Init /\ [][InitFailNext]_vars

(***************************************************************************)
(* Collision of a player inside a lane band with one lane-format pillar    *)
(* (stage-configuration pillar at x = 500, width 50).                      *)
(***************************************************************************)
\* top of the band of lane L (lane 0 at the bottom, lane 6 at the top)
LaneTop(lane) == topMargin + (6 - lane) * laneHeight

\* vertical offsets of a 40 px body inside a 70 px band
BandOffsets == {0, 15, 30}

\* horizontal positions of the player that overlap the pillar
CrossingXs == {460, 500, 540}

LaneSets == (SUBSET (0..6)) \ {{}}

LaneScene(lanes, lane, offset, x) ==
  [NewScene EXCEPT
     !.isGameStarted = TRUE, !.ui = TRUE, !.created = 1,
     !.terrain = [exists |-> TRUE,
                  obstacles |-> GeneratePillars(Stage(Num(1000), TRUE,
                                                       << LanePillar(500, lanes, 50) >>))],
     !.player = NewPlayer(x, LaneTop(lane) + offset + spriteSize \div 2)]

LaneInit ==
  /\ activeScene = "GameScene"
  /\ vcs = <<>>
  /\ task = NoTask
  /\ initTask = "idle"
  /\ \E lanes \in LaneSets : \E lane \in 0..6 : \E offset \in BandOffsets : \E x \in CrossingXs :
       /\ scene = LaneScene(lanes, lane, offset, x)
       /\ last = [op |-> "setup", blockedLanes |-> lanes, lane |-> lane]

\* the collision check of one tick
CollisionCheck ==
  /\ last.op = "setup"
  /\ scene' = CheckTerrainCollision(scene)
  /\ last' = [last EXCEPT !.op = "checkTerrainCollision"]
  /\ UNCHANGED <<activeScene, vcs, task, initTask>>

LaneSpec == LaneInit /\ [][CollisionCheck]_vars

(***************************************************************************)
(* Collision of a player with pillars of several widths (minY/maxY format, *)
(* a pillar at x = 500 from y = 300 to the floor and a second one at 900). *)
(***************************************************************************)
\* widths of the pillar at x = 500
PillarWidths == {50, 120, 200, 300}

\* horizontal positions of the player, every 10 px from 300 to 700
WidePlayerXs == {10 * n : n \in 30..70}

\* vertical positions of the player, above the pillar and beside it
WidePlayerYs == {100, 400}

WideScene(width, x, y) ==
  [NewScene EXCEPT
     !.isGameStarted = TRUE, !.ui = TRUE, !.created = 1,
     !.terrain = [exists |-> TRUE,
                  obstacles |-> GeneratePillars(Stage(Num(1000), TRUE,
                                                       << RangePillar(500, 300, 600, width),
                                                          RangePillar(900, 0, 200, 50) >>))],
     !.player = NewPlayer(x, y)]

WideInit ==
  /\ activeScene = "GameScene"
  /\ vcs = <<>>
  /\ task = NoTask
  /\ initTask = "idle"
  /\ \E width \in PillarWidths : \E x \in WidePlayerXs : \E y \in WidePlayerYs :
       /\ scene = WideScene(width, x, y)
       /\ last = [op |-> "setup", width |-> width]

WideSpec == WideInit /\ [][CollisionCheck]_vars

(***************************************************************************)
(* The scene started with a stage configuration that lacks its track       *)
(* length or its pillars.                                                  *)
(***************************************************************************)
StageNext ==
  \/ \E stageName \in IncompleteStageNames : SelectStage(stageName)
  \/ \E now \in ClockValues : ClickStart(now)
  \/ \E delta \in Deltas : Update(delta)
  \/ \E delta \in ValidDeltas : PhysicsStep(delta)
  \/ ClickRestart
  \/ ClickMenu
  \/ \E c \in DOMAIN vcs : \E ok \in BOOLEAN : ContextCloseSettles(c, ok)
  \/ DelayElapsed
  \/ \E c \in DOMAIN vcs : MicGranted(c)
  \/ \E c \in DOMAIN vcs : MicRefused(c)

StageSpec == Init /\ [][StageNext]_vars

(***************************************************************************)
(* The scene started with a stage whose pillar is 40 px wide.              *)
(***************************************************************************)
NarrowNext ==
  \/ \E stageName \in NarrowStageNames : SelectStage(stageName)
  \/ \E now \in ClockValues : ClickStart(now)
  \/ \E delta \in Deltas : Update(delta)
  \/ \E delta \in ValidDeltas : PhysicsStep(delta)
  \/ ClickRestart
  \/ ClickMenu
  \/ \E c \in DOMAIN vcs : \E ok \in BOOLEAN : ContextCloseSettles(c, ok)
  \/ DelayElapsed
  \/ \E c \in DOMAIN vcs : MicGranted(c)
  \/ \E c \in DOMAIN vcs : MicRefused(c)

NarrowSpec == Init /\ [][NarrowNext]_vars

(***************************************************************************)
(* Pillars generated from a lane-format entry whose blockedLanes is empty  *)
(* or names lanes outside 0..6.                                            *)
(***************************************************************************)
MalformedLaneSets == {lanes \in SUBSET (-1..7) : lanes = {} \/ ~(lanes \subseteq 0..6)}

MalformedInit ==
  /\ activeScene = "GameScene"
  /\ vcs = <<>>
  /\ task = NoTask
  /\ initTask = "idle"
  /\ scene = NewScene
  /\ \E lanes \in MalformedLaneSets :
       last = [op |-> "setup", blockedLanes |-> lanes]

\* new TerrainGenerator(scene, stage).generate()
GenerateTerrain ==
  /\ last.op = "setup"
  /\ scene' = [scene EXCEPT
                 !.terrain = [exists |-> TRUE,
                              obstacles |-> GeneratePillars(
                                Stage(Num(1000), TRUE,
                                      << LanePillar(500, last.blockedLanes, 50) >>))]]
  /\ last' = [last EXCEPT !.op = "generatePillars"]
  /\ UNCHANGED <<activeScene, vcs, task, initTask>>

MalformedSpec == MalformedInit /\ [][GenerateTerrain]_vars

(***************************************************************************)
(* Player, the two discrete-lane variants: setLane(laneIndex) with a lane  *)
(* index from the force level, and with a note index.                      *)
(***************************************************************************)
\* TerrainGenerator.getLaneYPosition: laneYPositions[laneIndex]
GetLaneYPosition(laneIndex) == topMargin + laneIndex * laneHeight

NewForceLanePlayer(y) == [currentLane |-> 0, targetY |-> y]

NewNoteLanePlayer(y) == [currentLane |-> 3, targetY |-> y]

ForceLaneSetLane(p, laneIndex) ==
  LET currentLane == Clamp(laneIndex, 0, numLanes - 1)
  IN  [currentLane |-> currentLane, targetY |-> GetLaneYPosition(currentLane)]

ForceLaneGetCurrentLane(p) == p.currentLane

\* variant: the note index is used as the visual lane
NoteLaneSetLaneDirect(p, laneIndex) ==
  LET currentLane == Clamp(laneIndex, 0, numLanes - 1)
  IN  [currentLane |-> currentLane, targetY |-> GetLaneYPosition(currentLane)]

NoteLaneSetLane(p, laneIndex) ==
  LET visualLane == numLanes - 1 - laneIndex
      currentLane == Clamp(visualLane, 0, numLanes - 1)
  IN  [currentLane |-> currentLane, targetY |-> GetLaneYPosition(currentLane)]

NoteLaneGetCurrentLane(p) == numLanes - 1 - p.currentLane

\* lane indices given to setLane
LaneIndexInputs == -3..9

LanePlayerInit ==
  /\ activeScene = "GameScene"
  /\ vcs = <<>>
  /\ task = NoTask
  /\ initTask = "idle"
  /\ scene = [forceLanePlayer |-> NewForceLanePlayer(gameHeight - 100),
              noteLanePlayer |-> NewNoteLanePlayer(gameHeight - 100)]
  /\ last = [op |-> "new", laneIndex |-> 0]

SetForceLane(laneIndex) ==
  /\ scene' = [scene EXCEPT
                 !.forceLanePlayer = ForceLaneSetLane(scene.forceLanePlayer, laneIndex)]
  /\ last' = [op |-> "setLaneForce", laneIndex |-> laneIndex]
  /\ UNCHANGED <<activeScene, vcs, task, initTask>>

SetNoteLane(laneIndex) ==
  /\ scene' = [scene EXCEPT
                 !.noteLanePlayer = NoteLaneSetLane(scene.noteLanePlayer, laneIndex)]
  /\ last' = [op |-> "setLaneNote", laneIndex |-> laneIndex]
  /\ UNCHANGED <<activeScene, vcs, task, initTask>>

LanePlayerNext ==
  \/ \E laneIndex \in LaneIndexInputs : SetForceLane(laneIndex)
  \/ \E laneIndex \in LaneIndexInputs : SetNoteLane(laneIndex)

LanePlayerSpec == LanePlayerInit /\ [][LanePlayerNext]_vars

(***************************************************************************)
(* The detection loop of an initialized controller during a run: each      *)
(* animation frame the analyser delivers a buffer of samples.              *)
(***************************************************************************)
Samples(values) == [i \in DOMAIN values |-> Num(values[i])]

\* a tone with a period of two samples
Tone2 == Samples(<<300, -100, 300, -100, 300, -100, 300, -100>>)

\* a tone with a period of three samples
Tone3 == Samples(<<300, -100, -200, 300, -100, -200, 300, -100>>)

Silence == Samples(<<0, 0, 0, 0, 0, 0, 0, 0>>)

\* below the noise thresholds
Faint == Samples(<<3, -1, 3, -1, 3, -1, 3, -1>>)

EmptyFrame == << >>

\* Tone2 with a NaN among the samples the offsets compare
NaNFrame == [Tone2 EXCEPT ![2] = NaN]

\* Tone2 with a NaN in the last sample, which no offset compares
NaNTailFrame == [Tone2 EXCEPT ![8] = NaN]

\* Tone2 with an infinite sample
InfFrame == [Tone2 EXCEPT ![3] = PosInf]

ValidFrames == {Tone2, Tone3, Silence, Faint}

InvalidFrames == {EmptyFrame, NaNFrame, NaNTailFrame, InfFrame}

Frames == ValidFrames \cup InvalidFrames

\* audioContext.sampleRate, chosen so that the tones fall below, inside and
\* above validPitchRange
SampleRates == {300, 1200}

VoiceInit ==
  /\ activeScene = "GameScene"
  /\ task = NoTask
  /\ initTask = "idle"
  /\ last = NoUpdate
  /\ \E sampleRate \in SampleRates :
       vcs = << [InitializeGranted(InitializeBegin(NewVoiceController))
                   EXCEPT !.sampleRate = sampleRate] >>
  /\ scene = StartGame(HideStartModal(
                [CreatedScene(NewScene, "ceilingStage") EXCEPT !.voiceController = 1]), 16)

\* one animation frame: detectLoop runs on controller c
DetectLoop(c, buffer) ==
  /\ vcs[c].isActive
  /\ vcs[c].callbacks < MaxCallbacks
  /\ vcs' = [vcs EXCEPT ![c] = DetectLoopBody(vcs[c], buffer)]
  /\ last' = [op |-> "detectLoop", buffer |-> buffer,
              pitch |-> AutoCorrelate(buffer, vcs[c].sampleRate).pitch,
              before |-> vcs[c]]
  /\ UNCHANGED <<activeScene, scene, task, initTask>>

VoiceNext ==
  \/ \E c \in DOMAIN vcs : \E buffer \in Frames : DetectLoop(c, buffer)
  \/ \E delta \in ValidDeltas : Update(delta)

VoiceSpec == VoiceInit /\ [][VoiceNext]_vars

(***************************************************************************)
(* The note of a pitch: detectNoteFromPitch() on its own, and the gate of   *)
(* detectLoop followed by getNoteIndex().                                  *)
(***************************************************************************)
\* pitches in hundredths of a Hz: 0, a negative value, every quarter of a Hz
\* from 120 Hz to 530 Hz, and the canonical frequencies of the notes
PitchInputs ==
  {-100, 0} \cup {q * 25 : q \in 480..2120}
            \cup {MusicalNotes[i].freq : i \in DOMAIN MusicalNotes}

NoteInit ==
  /\ activeScene = "GameScene"
  /\ scene = NewScene
  /\ task = NoTask
  /\ initTask = "idle"
  /\ vcs = << InitializeGranted(InitializeBegin(NewVoiceController)) >>
  /\ \E pitch \in PitchInputs :
       last = [op |-> "input", pitch |-> pitch, note |-> "null", index |-> 0]

\* a call of detectNoteFromPitch(pitch)
DetectNote ==
  /\ last.op = "input"
  /\ last' = [last EXCEPT !.op = "detectNoteFromPitch",
                          !.note = DetectNoteFromPitch(last.pitch)]
  /\ UNCHANGED <<activeScene, scene, vcs, task, initTask>>

\* detectLoop from the smoothed pitch on: the gate with updateCurrentNote(),
\* then the game reads getNoteIndex()
GateAndIndex ==
  /\ last.op = "input"
  /\ last.pitch >= 0
  /\ LET c == GatePitch([vcs[1] EXCEPT !.smoothedRawPitch = last.pitch,
                                       !.rawPitch = last.pitch])
     IN  /\ vcs' = [vcs EXCEPT ![1] = c]
         /\ last' = [last EXCEPT !.op = "getNoteIndex",
                                 !.note = c.currentNote, !.index = GetNoteIndex(c)]
  /\ UNCHANGED <<activeScene, scene, task, initTask>>

NoteNext ==
  \/ DetectNote
  \/ GateAndIndex

NoteSpec == NoteInit /\ [][NoteNext]_vars

(***************************************************************************)
(* autoCorrelate() on its own, on the frames above and on periodic test     *)
(* signals: a sawtooth with a period of a whole number of samples, so that *)
(* the frequency of the signal is sampleRate / period.                     *)
(***************************************************************************)
\* buffer lengths (analyser.fftSize)
BufferLengths == {8, 10, 12}

\* amplitudes of the test signal, in thousandths
Amplitudes == {60, 300, 900}

\* size samples of a sawtooth from -amplitude to amplitude
TestSignal(period, size, amplitude) ==
  [k \in 1..size |->
     Num((2 * amplitude * ((k - 1) % period)) \div (period - 1) - amplitude)]

EstimateInit ==
  /\ activeScene = "GameScene"
  /\ scene = NewScene
  /\ task = NoTask
  /\ initTask = "idle"
  /\ \E sampleRate \in SampleRates :
       vcs = << [InitializeGranted(InitializeBegin(NewVoiceController))
                   EXCEPT !.sampleRate = sampleRate] >>
  /\ \/ \E size \in BufferLengths : \E period \in 2..size : \E amplitude \in Amplitudes :
          last = [op |-> "signal", period |-> period, size |-> size,
                  buffer |-> TestSignal(period, size, amplitude),
                  pitch |-> 0, bestOffset |-> 0, bestCorrelation |-> 0]
     \/ \E buffer \in Frames :
          last = [op |-> "signal", period |-> 0, size |-> Len(buffer),
                  buffer |-> buffer,
                  pitch |-> 0, bestOffset |-> 0, bestCorrelation |-> 0]

\* a call of autoCorrelate(buffer, sampleRate)
Estimate ==
  /\ last.op = "signal"
  /\ LET r == AutoCorrelate(last.buffer, vcs[1].sampleRate)
     IN  /\ vcs' = [vcs EXCEPT ![1].currentForce = r.force]
         /\ last' = [last EXCEPT !.op = "autoCorrelate", !.pitch = r.pitch,
                                 !.bestOffset = r.bestOffset,
                                 !.bestCorrelation = r.bestCorrelation]
  /\ UNCHANGED <<activeScene, scene, task, initTask>>

EstimateSpec == EstimateInit /\ [][Estimate]_vars

(***************************************************************************)
(* Run status.                                                             *)
(***************************************************************************)
Status ==
  IF scene.isGameOver
  THEN IF "Game Over!" \in scene.outcomes THEN "Failed" ELSE "Completed"
  ELSE IF scene.isGameStarted THEN "Running" ELSE "NotStarted"

StatusAfter ==
  IF scene'.isGameOver
  THEN IF "Game Over!" \in scene'.outcomes THEN "Failed" ELSE "Completed"
  ELSE IF scene'.isGameStarted THEN "Running" ELSE "NotStarted"

Terminal == {"Completed", "Failed"}

\* the step is a call of update()
IsUpdateStep == last'.op = "update"

\* the controller of the scene was refused the microphone
CurrentRefused ==
  scene.voiceController # 0 /\ vcs[scene.voiceController].initResult = "false"

\* controller c holds a live microphone stream or an open AudioContext
Holds(c) == c.tracks = "live" \/ c.contextState = "running"

\* the step is a detection callback
IsDetectStep == last'.op = "detectLoop"

(***************************************************************************)
(* Properties.                                                             *)
(***************************************************************************)

\* C1: in a run the collision outcome fires at most once: endGame(false) is
\* called at most once and at most one end modal is shown, also when the
\* overlap persists over later ticks.
C1_CollisionOnce ==
  /\ scene.collisionsFired <= 1
  /\ scene.endModalsShown <= 1
  /\ scene.collisionsFired = 1 => scene.outcomes = {"Game Over!"}

\* a later tick has run while the player still overlaps the obstacle it hit
C1_Witness ==
  /\ scene.collisionsFired = 1
  /\ last.op = "update" /\ last.branch = "idle"
  /\ scene.player.exists /\ HitObstacle(scene)

\* C2: a run has at most one terminal outcome, and a tick after the outcome
\* changes neither the player's position nor its velocity and does not
\* evaluate the collision predicate.
C2_TerminalExclusive ==
  [][/\ Cardinality(scene'.outcomes) <= 1
     /\ (IsUpdateStep /\ scene.outcomes # {})
          => /\ scene'.player = scene.player
             /\ scene'.outcomes = scene.outcomes
             /\ ~last'.evaluated]_vars

\* a tick has run after the run was completed
C2_Witness ==
  /\ scene.outcomes = {"Level Complete!"}
  /\ scene.player.exists
  /\ last.op = "update" /\ last.branch = "idle"

\* C3: the status moves NotStarted -> Running -> Completed or Failed only;
\* the step to Running is the start button's startGame(), which records the
\* clock in startTime; a terminal run is left only by create().
C3_StatusOrder ==
  [][/\ (Status # StatusAfter) =>
          \/ Status = "NotStarted" /\ StatusAfter = "Running"
          \/ Status = "Running" /\ StatusAfter \in Terminal
          \/ Status \in Terminal /\ StatusAfter = "NotStarted"
     /\ (Status # "Running" /\ StatusAfter = "Running") =>
          /\ scene.startButton /\ ~scene'.startButton
          /\ ~IsUpdateStep
          /\ scene'.startTime \in ClockValues
     /\ (Status \in Terminal /\ StatusAfter # Status) =>
          scene'.created = scene.created + 1]_vars

\* a second run is running after the first one ended and was restarted
C3_Witness ==
  /\ scene.created = 2
  /\ Status = "Running"
  /\ scene.startTime \in ClockValues

\* C4: a Running tick after whose advance the player both overlaps an
\* obstacle and has reached the track length ends the run as Failed.
C4_CollisionBeforeCompletion ==
  (/\ last.op = "update" /\ last.branch = "running" /\ last.error = "none"
   /\ HitObstacle(scene)
   /\ ReachedBy(GetTotalWidth(scene.currentStage), scene.player.x))
    => (scene.outcomes = {"Game Over!"} /\ scene.endText = "Game Over!")

\* the tick that reached the end of the track inside an obstacle
C4_Witness ==
  /\ last.op = "update" /\ last.branch = "running" /\ last.evaluated
  /\ HitObstacle(scene)
  /\ ReachedBy(GetTotalWidth(scene.currentStage), scene.player.x)
  /\ scene.outcomes = {"Game Over!"}

\* volumes given to applyVolumeBoost(), in units of 1/300: NaN, infinite,
\* negative, zero, inside (0, 1], above 1
VolumeInputs == {NaN, PosInf, Num(-30), Num(0), Num(4), Num(36), Num(100), Num(300), Num(600)}

\* C5: no call of update() decreases the player's x, whatever the delta, and
\* no volume gives a negative forward speed.
C5_XNonDecreasing ==
  [][/\ (IsUpdateStep /\ scene.player.exists) => scene'.player.x >= scene.player.x
     /\ \A volume \in VolumeInputs :
          LET boost == GetVolumeBoost(ApplyVolumeBoost(scene.player, volume))
          IN  boost >= 0 /\ boost <= maxVolumeBoost]_vars

\* a negative delta was rejected in a run that had already advanced
C5_Witness ==
  /\ last.op = "update" /\ last.delta = Num(-500) /\ last.branch = "invalidDelta"
  /\ Status = "Running"
  /\ scene.player.x > playerStartX

\* C6: every Running tick with an accepted delta, with the controller active
\* or inactive, runs to completion and adds exactly
\* (baseScrollSpeed + volumeBoost) * delta / 1000 to the player's x.
C6_TickAdvances ==
  [][(IsUpdateStep /\ last'.branch = "running") =>
       /\ last'.error = "none"
       /\ scene'.player.x * 1000 =
            scene.player.x * 1000
              + (baseScrollSpeed + scene'.player.volumeBoost) * last'.delta.v]_vars

\* C7: with accepted ticks arriving, a Running run reaches a terminal
\* outcome (Completed unless a collision occurs); it is Completed only with
\* x at or past the stage length and with the progress shown as 100%.
C7_EventuallyCompleted ==
  /\ (Status = "Running") ~> (Status \in Terminal)
  /\ [](Status = "Completed" /\ scene.player.exists =>
          /\ ReachedBy(GetTotalWidth(scene.currentStage), scene.player.x)
          /\ scene.distanceText = Num(1000))

\* the lane sets that are a run of lanes from the floor (0..m) or up to the
\* ceiling (n..6)
Anchored(lanes) == \E m \in 0..6 : lanes = 0..m \/ lanes = m..6

\* C8 as stated: for every non-empty set of blocked lanes, a player inside
\* the band of lane L that overlaps the pillar horizontally fails exactly
\* when L is a blocked lane.
C8_EveryLaneSet ==
  last.op = "checkTerrainCollision" =>
    (scene.isGameOver <=> last.lane \in last.blockedLanes)

\* C8 amended: the same for the lane sets 0..m (pillar from the floor) and
\* n..6 (pillar from the ceiling).
C8_AnchoredLaneSets ==
  (last.op = "checkTerrainCollision" /\ Anchored(last.blockedLanes)) =>
    /\ scene.isGameOver <=> last.lane \in last.blockedLanes
    /\ scene.isGameOver => scene.outcomes = {"Game Over!"}

\* Scenario A: lanes {0, 1} blocked, the player in lane 3 passes
C8_Witness ==
  /\ last.op = "checkTerrainCollision"
  /\ last.blockedLanes = {0, 1} /\ last.lane = 3
  /\ ~scene.isGameOver /\ scene.outcomes = {}

\* C9: at most one controller holds a live microphone stream or an open
\* AudioContext, and a controller is constructed only after the previous
\* one's destroyAsync() has completed.
C9_SingleOwner ==
  /\ Cardinality({c \in DOMAIN vcs : Holds(vcs[c])}) <= 1
  /\ \A c \in DOMAIN vcs : c > 1 => vcs[c - 1].destroyPc = "done"

C11_GatedPitch ==
  \A c \in DOMAIN vcs :
    /\ \/ vcs[c].currentPitch = 0
       \/ /\ vcs[c].currentPitch = vcs[c].smoothedRawPitch
          /\ vcs[c].currentPitch >= 130 * 100 /\ vcs[c].currentPitch <= 520 * 100
    /\ vcs[c].currentPitch = 0 <=>
         (vcs[c].smoothedRawPitch < 130 * 100 \/ vcs[c].smoothedRawPitch > 520 * 100)

\* a callback took the smoothed pitch from inside the range to above it
C11_Witness ==
  /\ last.op = "detectLoop"
  /\ last.before.currentPitch > 0
  /\ vcs[1].smoothedRawPitch > 520 * 100
  /\ vcs[1].currentPitch = 0

\* C12 as stated: with a candidate p the smoothed pitch becomes
\* smoothed * 0.7 + p * 0.3 for every prior value, 0 included; with no
\* candidate it becomes smoothed * 0.95, or 0 when that is below 1 Hz.
\* (Equalities hold to the hundredth of a Hz the model keeps.)
C12_OneRule ==
  [][IsDetectStep =>
       LET before == last'.before.smoothedRawPitch
           pitch == last'.pitch
           after == vcs'[1].smoothedRawPitch
       IN  IF pitch > 0
           THEN /\ 10 * after <= 7 * before + 3 * pitch
                /\ 7 * before + 3 * pitch < 10 * after + 10
           ELSE IF 95 * before < 100 * 100
           THEN after = 0
           ELSE 100 * after <= 95 * before /\ 95 * before < 100 * after + 100]_vars

\* C12 amended: as above for a prior value other than 0; with a candidate p
\* and a prior value of 0 the smoothed pitch becomes p.
C12_SeededRule ==
  [][IsDetectStep =>
       LET before == last'.before.smoothedRawPitch
           pitch == last'.pitch
           after == vcs'[1].smoothedRawPitch
       IN  IF pitch > 0 /\ before = 0
           THEN after = pitch
           ELSE IF pitch > 0
           THEN /\ 10 * after <= 7 * before + 3 * pitch
                /\ 7 * before + 3 * pitch < 10 * after + 10
           ELSE IF 95 * before < 100 * 100
           THEN after = 0
           ELSE 100 * after <= 95 * before /\ 95 * before < 100 * after + 100]_vars

\* a candidate was blended into a different prior value after the first
\* candidate had seeded it
C12_Witness ==
  /\ last.op = "detectLoop"
  /\ last.pitch > 0
  /\ last.before.smoothedRawPitch > 0
  /\ last.before.smoothedRawPitch # last.pitch
  /\ vcs[1].callbacks >= 2

\* C13: a callback with a candidate P leaves the smoothed pitch between its
\* previous value and P, and no farther from P than it was.
C13_NoOvershoot ==
  [][(IsDetectStep /\ last'.pitch > 0) =>
       LET before == last'.before.smoothedRawPitch
           pitch == last'.pitch
           after == vcs'[1].smoothedRawPitch
       IN  /\ Min(before, pitch) <= after /\ after <= Max(before, pitch)
           /\ Max(after, pitch) - Min(after, pitch)
                <= Max(before, pitch) - Min(before, pitch)]_vars

\* the candidate 600 Hz held for a second callback: 460 Hz has become 502 Hz
C13_Witness ==
  /\ last.op = "detectLoop"
  /\ last.pitch = 600 * 100
  /\ last.before.smoothedRawPitch = 460 * 100
  /\ vcs[1].smoothedRawPitch = 502 * 100

\* C14: a Running tick with an active controller whose gated pitch is at
\* least 100 Hz sets the vertical velocity to
\* -clamp((pitch - 100) / (600 - 100), 0, 1) * maxUpwardVelocity; with a
\* lower pitch the tick leaves the vertical velocity as it was.
C14_PitchCommandsVelocity ==
  [][(IsUpdateStep /\ last'.branch = "running" /\ ControllerActive(scene, vcs)) =>
       LET pitch == vcs[scene.voiceController].currentPitch
           normalized1000 == Clamp(((pitch - 100 * 100) * 1000) \div ((600 - 100) * 100),
                                   0, 1000)
       IN  IF pitch >= 100 * 100
           THEN scene'.player.velocityY = -((normalized1000 * maxUpwardVelocity) \div 1000)
           ELSE scene'.player.velocityY = scene.player.velocityY]_vars

\* C15: a callback on a zero-length frame or a frame with a non-finite
\* sample leaves smoothedRawPitch, rawPitch, currentPitch, currentNote and
\* currentForce as they were.
C15_InvalidFrameSkipped ==
  [][(IsDetectStep /\ last'.buffer \in InvalidFrames) =>
       /\ vcs'[1].smoothedRawPitch = last'.before.smoothedRawPitch
       /\ vcs'[1].rawPitch = last'.before.rawPitch
       /\ vcs'[1].currentPitch = last'.before.currentPitch
       /\ vcs'[1].currentNote = last'.before.currentNote
       /\ vcs'[1].currentForce = last'.before.currentForce]_vars

\* C16: a run is Running, or offers its start button, only for a stage
\* configuration that has both a pillars list and a numeric track length.
C16_RunningNeedsStage ==
  (scene.currentStage # "none" /\ (Status = "Running" \/ scene.startButton)) =>
    /\ StageConfigs[scene.currentStage].hasPillars
    /\ StageConfigs[scene.currentStage].length.k = "num"

\* C17: when audioContext.close() settles, resolved or rejected, destroyAsync()
\* completes with isActive false and microphone, stream, audioContext and
\* analyser null, and the restartGame()/backToMenu() that awaited it goes on
\* to its cleanup and its delay.
C17_TeardownFailure ==
  [][\A c \in DOMAIN vcs :
       (vcs[c].destroyPc = "awaitClose" /\ vcs'[c].destroyPc # "awaitClose") =>
         /\ vcs'[c].destroyPc = "done"
         /\ ~vcs'[c].isActive /\ ~vcs'[c].microphone /\ ~vcs'[c].stream
         /\ ~vcs'[c].audioContext /\ ~vcs'[c].analyser
         /\ (task.pc = "awaitDestroy" /\ scene.voiceController = c) =>
              /\ task'.pc = "delay"
              /\ scene'.voiceController = 0 /\ ~scene'.player.exists]_vars

\* the run was restarted after the close() of its controller's context was
\* rejected
C17_Witness ==
  /\ scene.created = 2 /\ scene.player.exists
  /\ Len(vcs) = 2
  /\ vcs[1].destroyPc = "done" /\ vcs[1].contextState = "running"
  /\ ~vcs[1].audioContext /\ ~vcs[1].isActive

\* C18: the obstacle built from a pillar entry with an empty blockedLanes or
\* with lanes outside 0..6 has finite bounds with
\* 0 <= minY <= maxY <= gameHeight.
C18_MalformedClamped ==
  last.op = "generatePillars" =>
    \A i \in DOMAIN scene.terrain.obstacles :
      LET o == scene.terrain.obstacles[i]
      IN  /\ o.minY.k = "num" /\ o.maxY.k = "num"
          /\ 0 <= o.minY.v /\ o.minY.v <= o.maxY.v /\ o.maxY.v <= gameHeight

\* C19: after any setLane calls the stored lane index of both variants is in
\* 0..6; the force-lane variant stores clamp(i, 0, 6) and the note-lane
\* variant's getCurrentLane() returns clamp(i, 0, 6) for the last i; note 0
\* (DO) is placed on the bottom lane and note 6 (SI) on the top lane.
C19_LaneClamped ==
  /\ scene.forceLanePlayer.currentLane \in 0..6
  /\ scene.noteLanePlayer.currentLane \in 0..6
  /\ last.op = "setLaneForce" =>
       ForceLaneGetCurrentLane(scene.forceLanePlayer) = Clamp(last.laneIndex, 0, 6)
  /\ last.op = "setLaneNote" =>
       /\ NoteLaneGetCurrentLane(scene.noteLanePlayer) = Clamp(last.laneIndex, 0, 6)
       /\ last.laneIndex = 0 =>
            \A lane \in 0..6 : scene.noteLanePlayer.targetY >= GetLaneYPosition(lane)
       /\ last.laneIndex = 6 =>
            \A lane \in 0..6 : scene.noteLanePlayer.targetY <= GetLaneYPosition(lane)

\* a note index above the range was given after a force-lane index below it
C19_Witness ==
  /\ last.op = "setLaneNote" /\ last.laneIndex = 9
  /\ NoteLaneGetCurrentLane(scene.noteLanePlayer) = 6
  /\ scene.noteLanePlayer.targetY = topMargin
  /\ scene.forceLanePlayer = ForceLaneSetLane(scene.forceLanePlayer, -3)
  /\ scene.forceLanePlayer.targetY = topMargin

\* C20: a terminal run leaves its terminal status only through create(),
\* which gives a NotStarted run: the flags and playerHit false, a new player
\* at x = 100, the obstacles rebuilt from the stage, no outcome.
C20_NoResume ==
  [][(Status \in Terminal /\ StatusAfter # Status) =>
       /\ scene'.created = scene.created + 1
       /\ StatusAfter = "NotStarted"
       /\ ~scene'.isGameStarted /\ ~scene'.isGameOver /\ ~scene'.playerHit
       /\ scene'.startTime = 0
       /\ scene'.player = NewPlayer(playerStartX, gameHeight - 100)
       /\ scene'.terrain.obstacles = GeneratePillars(StageConfigs[scene'.currentStage])
       /\ scene'.outcomes = {} /\ ~scene'.endModal
       /\ scene'.startButton]_vars

\* the second run, not started, after a first run that had moved and failed
C20_Witness ==
  /\ scene.created = 2
  /\ Status = "NotStarted"
  /\ scene.player.exists /\ scene.player.x = playerStartX
  /\ scene.startButton

\* the force of a frame of finite samples (thousandths): 0.9 times the root
\* of the mean square plus 0.1 times the largest absolute sample
FrameForce(buffer) ==
  LET size == Len(buffer)
      meanSquare == SumTo([i \in 1..size |-> buffer[i].v * buffer[i].v], size) \div size
      rms == CHOOSE r \in 0..1000 : r * r <= meanSquare /\ (r + 1) * (r + 1) > meanSquare
      peak == SetMax({IF buffer[i].v >= 0 THEN buffer[i].v ELSE -buffer[i].v : i \in 1..size})
  IN  (rms * 9 + peak) \div 10

\* C21: after every detection callback on a frame of finite samples, also one
\* the noise gate rejects, currentForce is 0.9 * RMS + 0.1 * peak of that
\* frame; an all-zero frame gives no pitch and force 0.
C21_ForceAlwaysComputed ==
  [][IsDetectStep /\ last'.buffer \in ValidFrames =>
       /\ vcs'[1].currentForce = Num(FrameForce(last'.buffer))
       /\ last'.buffer = Silence =>
            last'.pitch = -1 /\ vcs'[1].currentForce = Num(0)]_vars

\* a frame below the noise thresholds came after a tone and left its own
\* force, which is not 0 and not the force of the tone
C21_Witness ==
  /\ last.op = "detectLoop"
  /\ last.buffer = Faint
  /\ last.pitch = -1
  /\ last.before.currentForce = Num(FrameForce(Tone2))
  /\ vcs[1].currentForce = Num(FrameForce(Faint))
  /\ FrameForce(Faint) > 0

\* the notes whose [min, max] band contains the pitch (hundredths of a Hz)
BandsOf(pitch) ==
  {i \in DOMAIN MusicalNotes :
     pitch >= MusicalNotes[i].min * 100 /\ pitch <= MusicalNotes[i].max * 100}

\* |pitch - freq| of note i
Distance(pitch, i) ==
  IF pitch >= MusicalNotes[i].freq THEN pitch - MusicalNotes[i].freq
  ELSE MusicalNotes[i].freq - pitch

\* C22: detectNoteFromPitch() returns, for a pitch in [130, 520] Hz, a note
\* whose band contains the pitch, or when no band contains it the note of
\* the nearest canonical frequency if nearer than 25 Hz and null otherwise;
\* for a pitch outside [130, 520] Hz it returns null; getNoteIndex() returns
\* a lane index in 0..6 that is the same for both octaves of a note name.
C22_NoteOfPitch ==
  /\ last.op = "detectNoteFromPitch" =>
       IF last.pitch >= 130 * 100 /\ last.pitch <= 520 * 100
       THEN IF BandsOf(last.pitch) # {}
            THEN \E i \in BandsOf(last.pitch) : last.note = MusicalNotes[i].note
            ELSE IF \E i \in DOMAIN MusicalNotes : Distance(last.pitch, i) < 25 * 100
            THEN \E i \in DOMAIN MusicalNotes :
                   /\ last.note = MusicalNotes[i].note
                   /\ \A j \in DOMAIN MusicalNotes :
                        Distance(last.pitch, i) <= Distance(last.pitch, j)
            ELSE last.note = "null"
       ELSE last.note = "null"
  /\ last.op = "getNoteIndex" =>
       /\ last.index \in 0..6
       /\ \A i \in 1..7 :
            last.note \in {MusicalNotes[i].note, MusicalNotes[i + 7].note} =>
              last.index = i - 1

\* a pitch of the lower octave was classified into the band that contains it
C22_Witness ==
  /\ last.op = "detectNoteFromPitch"
  /\ last.pitch = 200 * 100
  /\ last.note = "sol3"

\* C23: for a periodic test signal of frequency F = sampleRate / period with
\* R/L <= F <= R/2 (a period from 2 samples up to the buffer length),
\* autoCorrelate() returns a pitch within 1 % of F.
C23_PitchOfTestSignal ==
  last.op = "autoCorrelate" /\ last.period >= 2 /\ last.period <= last.size =>
    /\ last.pitch > 0
    /\ 100 * last.pitch * last.period >= 99 * vcs[1].sampleRate * 100
    /\ 100 * last.pitch * last.period <= 101 * vcs[1].sampleRate * 100

\* C24: when autoCorrelate() has recorded a best offset, bestCorrelation is
\* above 0.9, so the acceptance test (above 0.08) passes and a pitch is
\* returned, and the offset is in 2 .. floor(N/2) - 1: lag 1 is never
\* selected.
C24_RecordedCandidateAccepted ==
  last.op = "autoCorrelate" /\ last.bestOffset # -1 =>
    /\ last.bestCorrelation * 10 > 9 * 1000 * (last.size \div 2)
    /\ last.pitch > 0
    /\ last.bestOffset >= 2
    /\ last.bestOffset <= last.size \div 2 - 1

\* a faint sawtooth on which every lag correlates above 0.9: the lag of the
\* period was recorded, lag 1 was not
C24_Witness ==
  /\ last.op = "autoCorrelate"
  /\ last.buffer = TestSignal(4, 12, 60)
  /\ last.bestOffset = 4
  /\ Correlation(last.buffer, 6, 1).v * 10 > 9 * 1000 * 6

\* C25: checkTerrainCollision(), which tests the obstacles whose anchor x is
\* within 100 px of the player's left edge, reports a hit exactly when the
\* bounding-box test against all obstacles of the stage would.
C25_WindowEqualsFullScan ==
  last.op = "checkTerrainCollision" =>
    (scene.playerHit <=>
       \E i \in 1..Len(scene.terrain.obstacles) :
         Overlaps(GetBounds(scene.player), scene.terrain.obstacles[i]))

\* C26: when a tick of a Running run moves the player from entirely left of
\* an obstacle to entirely right of it while its vertical extent overlaps
\* the obstacle, the run is Failed after the tick.
C26_NoSkip ==
  [][IsUpdateStep /\ Status = "Running" /\ scene.player.exists /\ scene'.player.exists
       /\ (\E i \in 1..Len(scene.terrain.obstacles) :
             LET obstacle == scene.terrain.obstacles[i]
                 before == GetBounds(scene.player)
                 after == GetBounds(scene'.player)
             IN  /\ before.right <= obstacle.x - obstacle.width \div 2
                 /\ after.x >= obstacle.x + obstacle.width \div 2
                 /\ LessThan(obstacle.minY, after.bottom)
                 /\ GreaterThan(obstacle.maxY, after.y))
     => StatusAfter = "Failed"]_vars

\* C27: when initialize() of a controller resolves after destroyAsync() was
\* called on it during the wait for the microphone, the controller is not
\* active and holds no stream and no AudioContext.
C27_DestroyedStaysDead ==
  [][\A c \in DOMAIN vcs :
       /\ vcs[c].initPc = "awaitMic"
       /\ vcs[c].destroyPc = "done"
       /\ vcs'[c].initPc = "done"
       => /\ ~vcs'[c].isActive
          /\ ~vcs'[c].stream
          /\ ~vcs'[c].audioContext]_vars

\* C28: once initialize() has returned false and destroyAsync() has run to
\* its end, no track of a granted stream is live and no AudioContext the
\* controller created is open.
C28_FailedInitLeaksNothing ==
  \A c \in DOMAIN vcs :
    vcs[c].initResult = "false" /\ vcs[c].destroyPc = "done" =>
      vcs[c].tracks # "live" /\ vcs[c].contextState # "running"

\* C29: a detection callback in which the estimator reports no candidate
\* does not change getPitch() from 0 to another value and does not change
\* currentNote.
C29_SilenceCreatesNoNote ==
  [][IsDetectStep /\ last'.pitch <= 0 =>
       /\ ~(vcs[1].currentPitch = 0 /\ vcs'[1].currentPitch # 0)
       /\ vcs'[1].currentNote = vcs[1].currentNote]_vars

\* C30: detectNoteFromPitch() of the canonical frequency of a note returns
\* that note, its frequency being inside its own band, and no pitch lies in
\* the bands of two notes.
C30_NoteTableConsistent ==
  last.op = "detectNoteFromPitch" =>
    /\ \A i \in DOMAIN MusicalNotes :
         last.pitch = MusicalNotes[i].freq =>
           i \in BandsOf(last.pitch) /\ last.note = MusicalNotes[i].note
    /\ Cardinality(BandsOf(last.pitch)) <= 1

====
